---- MODULE Spec2Model ----
(***************************************************************************)
(* A model of layers.py: the layer-naming counter (get_layer_uid), the     *)
(* base class Layer (construction, __call__, _log_vars), the constructors  *)
(* of Dense / GraphConvolution / PathEmbedding, GraphConvolution._call     *)
(* and PathEmbedding._call.                                                *)
(*                                                                         *)
(* Python strings are modelled as sequences of one-character strings, so   *)
(* that str.lower(), str(int) and + are computed and not assumed.          *)
(***************************************************************************)
EXTENDS Integers, Sequences, FiniteSets, TLC

VARIABLES
  _LAYER_UIDS,   \* the module-level dict: tag -> last id handed out
  layers,        \* the Layer objects constructed so far, in order
  summaries,     \* the keys handed to tf.summary.histogram, in order
  last,          \* what the last operation was given and what it returned
  uidCalls,      \* history: per tag, the values get_layer_uid returned
  threads,       \* per thread: position inside Layer.__init__ / get_layer_uid
  overlap,       \* history: tags on which two get_layer_uid calls overlapped
  pe,            \* a PathEmbedding layer: what it is fed and what _call computed
  gc             \* a GraphConvolution layer and two applications of it

vars == <<_LAYER_UIDS, layers, summaries, last, uidCalls, threads, overlap,
          pe, gc>>

----------------------------------------------------------------------------
(* Bounds of the model.                                                    *)

MaxLayers == 1
MaxUid == 3
MaxSummaries == 3
MaxStarts == 4
MaxSteps == 2

----------------------------------------------------------------------------
(* Python strings.                                                         *)

UpperCase ==
  <<"A","B","C","D","E","F","G","H","I","J","K","L","M",
    "N","O","P","Q","R","S","T","U","V","W","X","Y","Z">>
LowerCase ==
  <<"a","b","c","d","e","f","g","h","i","j","k","l","m",
    "n","o","p","q","r","s","t","u","v","w","x","y","z">>
Digits == <<"0","1","2","3","4","5","6","7","8","9">>

LowerChar(c) ==
  IF \E i \in DOMAIN UpperCase : UpperCase[i] = c
  THEN LowerCase[CHOOSE i \in DOMAIN UpperCase : UpperCase[i] = c]
  ELSE c

\* str.lower()
StrLower(s) == [i \in 1..Len(s) |-> LowerChar(s[i])]

\* str(n) for n >= 0
RECURSIVE Str(_)
Str(n) == IF n < 10 THEN <<Digits[n + 1]>>
          ELSE Str(n \div 10) \o <<Digits[(n % 10) + 1]>>

ClsLayer == <<"L","a","y","e","r">>
ClsGraphConvolution ==
  <<"G","r","a","p","h","C","o","n","v","o","l","u","t","i","o","n">>
Classes == {ClsLayer, ClsGraphConvolution}

KwName == <<"n","a","m","e">>
KwLogging == <<"l","o","g","g","i","n","g">>
KwUnits == <<"u","n","i","t","s">>
KwDim == <<"d","i","m">>
KwKeys == {KwName, KwLogging, KwUnits, KwDim}

InvalidKeywordArgument ==
  <<"I","n","v","a","l","i","d"," ","k","e","y","w","o","r","d"," ",
    "a","r","g","u","m","e","n","t",":"," ">>
SfxInputs == <<"/","i","n","p","u","t","s">>
SfxOutputs == <<"/","o","u","t","p","u","t","s">>
SfxVars == <<"/","v","a","r","s","/">>
VarWeights == <<"w","e","i","g","h","t","s">>
VarBias == <<"b","i","a","s">>

\* the names a caller passes: the empty string and a non-empty one
NameValues == { <<>>, <<"f","c">> }

\* the tags get_layer_uid is called with: the lowercased class names
Tags == { StrLower(c) : c \in Classes }

\* self.__class__.__name__.lower(), tabulated once per class
ClassTag == [c \in Classes |-> StrLower(c)]

----------------------------------------------------------------------------
(* get_layer_uid                                                           *)

DictSet(d, k, v) == [t \in DOMAIN d \cup {k} |-> IF t = k THEN v ELSE d[t]]

\* get_layer_uid with the increment left out
get_layer_uid_noinc(uids, layer_name) ==
  IF layer_name \notin DOMAIN uids
  THEN [uids |-> DictSet(uids, layer_name, 1), ret |-> 1]
  ELSE [uids |-> uids, ret |-> uids[layer_name]]

\* get_layer_uid(layer_name): the dict after the call and the value returned
get_layer_uid(uids, layer_name) ==
  IF layer_name \notin DOMAIN uids
  THEN [uids |-> DictSet(uids, layer_name, 1), ret |-> 1]
  ELSE LET d == DictSet(uids, layer_name, uids[layer_name] + 1)
       IN  [uids |-> d, ret |-> d[layer_name]]

Count(uids, tag) == IF tag \in DOMAIN uids THEN uids[tag] ELSE 0

----------------------------------------------------------------------------
(* Layer.__init__                                                          *)

\* **kwargs: the keys in insertion order, and the values of name and logging
\* (read only when their key is present)
SeqsUpTo2(S) ==
  { <<>> } \cup { <<a>> : a \in S }
           \cup { s \in { <<a, b>> : a \in S, b \in S } : s[1] # s[2] }
InKeys(kw, k) == \E i \in DOMAIN kw.keys : kw.keys[i] = k
\* every choice of the keys name and logging, in both orders
AcceptedKwargs ==
  { kw \in [keys : SeqsUpTo2({KwName, KwLogging}), name : NameValues,
            logging : BOOLEAN] :
      /\ (~InKeys(kw, KwName) => kw.name = <<>>)
      /\ (~InKeys(kw, KwLogging) => kw.logging = FALSE) }
\* some choices with a key Layer.__init__ does not know: alone, after and
\* before a known key, and two of them in both orders
RejectedKwargs ==
  { [keys |-> <<KwUnits>>, name |-> <<>>, logging |-> FALSE],
    [keys |-> <<KwName, KwDim>>, name |-> <<"f","c">>, logging |-> FALSE],
    [keys |-> <<KwUnits, KwLogging>>, name |-> <<>>, logging |-> TRUE],
    [keys |-> <<KwUnits, KwDim>>, name |-> <<>>, logging |-> FALSE],
    [keys |-> <<KwDim, KwUnits>>, name |-> <<>>, logging |-> FALSE] }
Kwargs == AcceptedKwargs \cup RejectedKwargs

allowed_kwargs == {KwName, KwLogging}

\* the first key the assert of the loop rejects; 0 when it rejects none
FirstRejected(kw) ==
  IF \E i \in DOMAIN kw.keys : kw.keys[i] \notin allowed_kwargs
  THEN CHOOSE i \in DOMAIN kw.keys :
         /\ kw.keys[i] \notin allowed_kwargs
         /\ \A j \in 1..(i - 1) : kw.keys[j] \in allowed_kwargs
  ELSE 0

\* the loop with the assert left out
ValidateKwargs_none(kw) == <<>>

\* lines 55-57: the message of the AssertionError, <<>> when none is raised
ValidateKwargs(kw) ==
  IF FirstRejected(kw) = 0 THEN <<>>
  ELSE InvalidKeywordArgument \o kw.keys[FirstRejected(kw)]

\* line 59 as `if name is None:`
NotName_isNone(kw) == ~InKeys(kw, KwName)

\* `not name` of line 59: kwargs.get('name') is None (no such key) or ''
NotName(kw) == ~InKeys(kw, KwName) \/ Len(kw.name) = 0

\* Layer.__init__ after the assert, lines 58-66: the dict afterwards, the
\* value get_layer_uid returned (0 when it was not called) and the object
LayerInit(uids, cls, kw) ==
  LET layer == ClassTag[cls]
      got == get_layer_uid(uids, layer)
      name == IF NotName(kw) THEN layer \o <<"_">> \o Str(got.ret)
              ELSE kw.name
  IN  [uids |-> IF NotName(kw) THEN got.uids ELSE uids,
       ret |-> IF NotName(kw) THEN got.ret ELSE 0,
       self |-> [cls |-> cls, name |-> name, vars |-> <<>>,
                 logging |-> IF InKeys(kw, KwLogging) THEN kw.logging ELSE FALSE,
                 sparse_inputs |-> FALSE]]

\* _log_vars: one histogram per entry of self.vars, in the dict's order
LogVars(self) == [i \in 1..Len(self.vars) |-> self.name \o SfxVars \o self.vars[i]]


\* GraphConvolution.__init__ lines 161-162 (Dense.__init__ has the same);
\* Layer.__init__ has no such call
LogVarsAtInit(self) ==
  IF self.logging /\ self.cls = ClsGraphConvolution
  THEN LogVars(self) ELSE <<>>

\* the part of the subclass constructors that sets the fields of Layer:
\* sparse_inputs and the parameter store (weights, and bias when asked for)
SubclassInit(self, sparse_inputs, bias) ==
  IF self.cls = ClsGraphConvolution
  THEN [self EXCEPT !.sparse_inputs = sparse_inputs,
                    !.vars = IF bias THEN <<VarWeights, VarBias>>
                             ELSE <<VarWeights>>]
  ELSE self

\* the constructor arguments besides **kwargs that a class accepts
CtorArgs(cls) ==
  IF cls = ClsGraphConvolution
  THEN [sparse_inputs : BOOLEAN, bias : BOOLEAN]
  ELSE [sparse_inputs : {FALSE}, bias : {FALSE}]

----------------------------------------------------------------------------
(* Layer.__call__                                                          *)

\* the tensors handed to a layer, as terms
Inputs == { << <<"x","1">> >>, << <<"x","2">> >> }

\* _call: the identity in Layer (lines 68-69); the subclasses' computations
\* are kept as the term cls(inputs) here (GraphConvolution._call and
\* PathEmbedding._call are computed in SpecGC and SpecPE)
CallOf(self, inputs) ==
  IF self.cls = ClsLayer THEN inputs ELSE <<self.cls>> \o inputs

\* __call__ with the inputs histogram not guarded by sparse_inputs
CallEmits_nosparse(self) ==
  (IF self.logging THEN <<self.name \o SfxInputs>> ELSE <<>>)
  \o (IF self.logging THEN <<self.name \o SfxOutputs>> ELSE <<>>)

\* lines 73-77: the histograms one __call__ emits
CallEmits(self) ==
  (IF self.logging /\ ~self.sparse_inputs
   THEN <<self.name \o SfxInputs>> ELSE <<>>)
  \o (IF self.logging THEN <<self.name \o SfxOutputs>> ELSE <<>>)

----------------------------------------------------------------------------
(* The single-threaded life of the module: Spec                            *)

NoLast == [op |-> "none", err |-> <<>>, ret |-> 0, emit |-> <<>>,
           layer |-> 0, inputs |-> <<>>, outputs |-> <<>>]

\* no thread besides the caller's
NoThreads == <<>>

\* no PathEmbedding layer, no GraphConvolution layer under study
NoPE == [phase |-> "none"]
NoGC == [phase |-> "none"]

Init ==
  /\ _LAYER_UIDS = <<>>
  /\ layers = <<>>
  /\ summaries = <<>>
  /\ last = NoLast
  /\ uidCalls = [t \in Tags |-> <<>>]
  /\ threads = NoThreads
  /\ overlap = {}
  /\ pe = NoPE
  /\ gc = NoGC

\* the tag a caller passes to get_layer_uid directly
DirectTags == { ClassTag[ClsLayer] }

\* a direct call get_layer_uid(tag)
GetLayerUid(tag) ==
  /\ Count(_LAYER_UIDS, tag) < MaxUid
  /\ LET got == get_layer_uid(_LAYER_UIDS, tag)
     IN  /\ _LAYER_UIDS' = got.uids
         /\ uidCalls' = [uidCalls EXCEPT ![tag] = Append(@, got.ret)]
         /\ last' = [NoLast EXCEPT !.op = "uid", !.ret = got.ret]
  /\ UNCHANGED <<layers, summaries, threads, overlap, pe, gc>>

\* cls(..., **kw) raising the AssertionError of line 57
ConstructFails(cls, kw) ==
  /\ ValidateKwargs(kw) # <<>>
  /\ last' = [NoLast EXCEPT !.op = "construct", !.err = ValidateKwargs(kw)]
  /\ UNCHANGED <<_LAYER_UIDS, layers, summaries, uidCalls, threads, overlap, pe, gc>>

\* cls(..., sparse_inputs=, bias=, **kw) returning a layer
ConstructOk(cls, args, kw) ==
  /\ Len(layers) < MaxLayers
  /\ ValidateKwargs(kw) = <<>>
  /\ Count(_LAYER_UIDS, ClassTag[cls]) < MaxUid
  /\ LET r == LayerInit(_LAYER_UIDS, cls, kw)
         self == SubclassInit(r.self, args.sparse_inputs, args.bias)
         emit == LogVarsAtInit(self)
     IN  /\ Len(summaries) + Len(emit) <= MaxSummaries
         /\ _LAYER_UIDS' = r.uids
         /\ layers' = Append(layers, self)
         /\ summaries' = summaries \o emit
         /\ uidCalls' = IF r.ret = 0 THEN uidCalls
                        ELSE [uidCalls EXCEPT ![ClassTag[cls]] = Append(@, r.ret)]
         /\ last' = [NoLast EXCEPT !.op = "construct", !.ret = r.ret,
                                   !.emit = emit, !.layer = Len(layers) + 1]
  /\ UNCHANGED <<threads, overlap, pe, gc>>

\* layers[i](inputs)
Apply(i, inputs) ==
  /\ LET self == layers[i]
         emit == CallEmits(self)
     IN  /\ Len(summaries) + Len(emit) <= MaxSummaries
         /\ summaries' = summaries \o emit
         /\ last' = [NoLast EXCEPT !.op = "apply", !.emit = emit, !.layer = i,
                                   !.inputs = inputs,
                                   !.outputs = CallOf(self, inputs)]
  /\ UNCHANGED <<_LAYER_UIDS, layers, uidCalls, threads, overlap, pe, gc>>

Next ==
  \/ \E tag \in DirectTags : GetLayerUid(tag)
  \/ \E cls \in Classes : \E kw \in Kwargs : ConstructFails(cls, kw)
  \/ \E cls \in Classes : \E args \in CtorArgs(cls) : \E kw \in Kwargs :
       ConstructOk(cls, args, kw)
  \/ \E i \in DOMAIN layers : \E inputs \in Inputs : Apply(i, inputs)

Spec == Init /\ [][Next]_vars

----------------------------------------------------------------------------
(* Layers constructed without a name by several threads: SpecConc.         *)
(* A thread switch can fall between any two bytecodes, so the membership   *)
(* test of line 13, the load and the store of the += of line 17 and the    *)
(* load of line 18 are steps of their own.                                 *)

Threads == {"t1", "t2"}

Idle == [pc |-> "idle", cls |-> <<>>, tmp |-> 0, ret |-> 0]

InitConc ==
  /\ _LAYER_UIDS = <<>>
  /\ layers = <<>>
  /\ summaries = <<>>
  /\ last = NoLast
  /\ uidCalls = [t \in Tags |-> <<>>]
  /\ threads = [t \in Threads |-> Idle]
  /\ overlap = {}
  /\ pe = NoPE
  /\ gc = NoGC

\* a thread is inside get_layer_uid(tag)
Inside(th, tag) ==
  th.pc \in {"L13", "L14", "L17load", "L17store", "L18"} /\ ClassTag[th.cls] = tag

Started == Len(layers) + Cardinality({ t \in Threads : threads[t].pc # "idle" })

\* line 17's store with the + 1 left out
L17Store_noinc(uids, tag, tmp) == DictSet(uids, tag, tmp)

\* line 17, second half: _LAYER_UIDS[layer_name] = <loaded value> + 1
L17Store(uids, tag, tmp) == DictSet(uids, tag, tmp + 1)

\* cls() entered: lines 54-60, up to the call of get_layer_uid
T_Start(t, cls) ==
  /\ threads[t].pc = "idle"
  /\ Started < MaxStarts
  /\ Count(_LAYER_UIDS, ClassTag[cls]) < MaxUid
  /\ threads' = [threads EXCEPT ![t] = [Idle EXCEPT !.pc = "L13", !.cls = cls]]
  /\ overlap' = IF \E u \in Threads \ {t} : Inside(threads[u], ClassTag[cls])
                THEN overlap \cup {ClassTag[cls]} ELSE overlap
  /\ UNCHANGED <<_LAYER_UIDS, layers, summaries, last, uidCalls, pe, gc>>

\* line 13: if layer_name not in _LAYER_UIDS
T_L13(t) ==
  /\ threads[t].pc = "L13"
  /\ threads' = [threads EXCEPT ![t].pc =
                   IF ClassTag[threads[t].cls] \notin DOMAIN _LAYER_UIDS
                   THEN "L14" ELSE "L17load"]
  /\ UNCHANGED <<_LAYER_UIDS, layers, summaries, last, uidCalls, overlap, pe, gc>>

\* lines 14-15: _LAYER_UIDS[layer_name] = 1; return 1
T_L14(t) ==
  /\ threads[t].pc = "L14"
  /\ _LAYER_UIDS' = DictSet(_LAYER_UIDS, ClassTag[threads[t].cls], 1)
  /\ threads' = [threads EXCEPT ![t].pc = "L61", ![t].ret = 1]
  /\ UNCHANGED <<layers, summaries, last, uidCalls, overlap, pe, gc>>

\* line 17, first half: load _LAYER_UIDS[layer_name]
T_L17load(t) ==
  /\ threads[t].pc = "L17load"
  /\ threads' = [threads EXCEPT ![t].pc = "L17store",
                                ![t].tmp = _LAYER_UIDS[ClassTag[threads[t].cls]]]
  /\ UNCHANGED <<_LAYER_UIDS, layers, summaries, last, uidCalls, overlap, pe, gc>>

\* line 17, second half: store the sum
T_L17store(t) ==
  /\ threads[t].pc = "L17store"
  /\ _LAYER_UIDS' = L17Store(_LAYER_UIDS, ClassTag[threads[t].cls], threads[t].tmp)
  /\ threads' = [threads EXCEPT ![t].pc = "L18"]
  /\ UNCHANGED <<layers, summaries, last, uidCalls, overlap, pe, gc>>

\* line 18: return _LAYER_UIDS[layer_name]
T_L18(t) ==
  /\ threads[t].pc = "L18"
  /\ threads' = [threads EXCEPT ![t].pc = "L61",
                                ![t].ret = _LAYER_UIDS[ClassTag[threads[t].cls]]]
  /\ UNCHANGED <<_LAYER_UIDS, layers, summaries, last, uidCalls, overlap, pe, gc>>

\* lines 61-66: the name is built from the value returned, the object is done
T_L61(t) ==
  /\ threads[t].pc = "L61"
  /\ layers' = Append(layers,
       [cls |-> threads[t].cls,
        name |-> ClassTag[threads[t].cls] \o <<"_">> \o Str(threads[t].ret),
        vars |-> <<>>, logging |-> FALSE, sparse_inputs |-> FALSE])
  /\ threads' = [threads EXCEPT ![t] = Idle]
  /\ UNCHANGED <<_LAYER_UIDS, summaries, last, uidCalls, overlap, pe, gc>>

NextConc ==
  \/ \E t \in Threads : \E cls \in Classes : T_Start(t, cls)
  \/ \E t \in Threads : T_L13(t)
  \/ \E t \in Threads : T_L14(t)
  \/ \E t \in Threads : T_L17load(t)
  \/ \E t \in Threads : T_L17store(t)
  \/ \E t \in Threads : T_L18(t)
  \/ \E t \in Threads : T_L61(t)

SpecConc == InitConc /\ [][NextConc]_vars

----------------------------------------------------------------------------
(* PathEmbedding._call: SpecPE.                                            *)
(* Index arrays hold 0-based ids as in the source; tensors are sequences   *)
(* (1-based). An element of the normalized input is the pair [n, d]: the   *)
(* number n / sqrt(d). The recurrent cell is a free function: a state is   *)
(* the initial state together with the inputs the cell consumed, in order. *)

\* the lowest int32: tf.reduce_max of an empty int32 tensor
IntMin == -2147483647 - 1

Min(a, b) == IF a < b THEN a ELSE b

RECURSIVE SumSeq(_)
SumSeq(a) == IF a = <<>> THEN 0 ELSE Head(a) + SumSeq(Tail(a))

\* sum of the squares of all elements of a matrix
SumSq(x) == SumSeq([k \in DOMAIN x |-> SumSeq([c \in DOMAIN x[k] |-> x[k][c] * x[k][c]])])

Zero == [n |-> 0, d |-> 1]
Normed(v, d) == IF v = 0 THEN Zero ELSE [n |-> v, d |-> d]

\* line 207, tf.math.l2_normalize(inputs) with no axis: every element is
\* divided by the norm of the whole tensor
l2_normalize(x) ==
  [k \in DOMAIN x |-> [c \in DOMAIN x[k] |-> Normed(x[k][c], SumSq(x))]]

\* line 210, tf.gather(params, indices)
gather(params, indices) == [i \in DOMAIN indices |-> params[indices[i] + 1]]

\* tf.reduce_max of an int32 vector
reduce_max(a) ==
  IF a = <<>> THEN IntMin
  ELSE CHOOSE m \in { a[i] : i \in DOMAIN a } : \A i \in DOMAIN a : a[i] <= m

\* line 213 without the + 1
MaxLenOf_noplus1(seqs) == reduce_max(seqs)

\* line 213: max_len = tf.reduce_max(self.seqs) + 1
MaxLenOf(seqs) == reduce_max(seqs) + 1

IsSorted(ids) == \A i \in 1..(Len(ids) - 1) : ids[i] <= ids[i + 1]

\* lines 215-216, tf.math.segment_sum(ones_like(ids), ids) for sorted ids:
\* one row per id up to the last (largest) one, an id without element gets 0
segment_sum_ones(ids) ==
  IF ids = <<>> THEN <<>>
  ELSE [p \in 1..(ids[Len(ids)] + 1) |->
          Cardinality({ i \in DOMAIN ids : ids[i] = p - 1 })]

AddElt(a, b) ==
  IF a = Zero THEN b
  ELSE IF b = Zero THEN a
  ELSE Normed(a.n + b.n, a.d)
AddRow(a, b) == [c \in DOMAIN a |-> AddElt(a[c], b[c])]
ZeroRow(dim) == [c \in 1..dim |-> Zero]

RECURSIVE SumRows(_, _, _)
SumRows(updates, I, dim) ==
  IF I = {} THEN ZeroRow(dim)
  ELSE LET i == CHOOSE j \in I : TRUE
       IN  AddRow(updates[i], SumRows(updates, I \ {i}, dim))

\* line 217, tf.scatter_nd(ids, updates, shape) with ids[i] = (idx[i], seqs[i]):
\* a tensor of zeros to which every update is added at its coordinates
scatter_nd(idx, seqs, updates, shape) ==
  [p \in 1..shape[1] |-> [t \in 1..shape[2] |->
     SumRows(updates,
             { i \in DOMAIN idx : idx[i] = p - 1 /\ seqs[i] = t - 1 },
             shape[3])]]

\* tf.keras.layers.GRUCell: the new state from an input and a state
GRUCell(x, h) == [h EXCEPT !.xs = Append(@, x)]

RECURSIVE RnnState(_, _, _)
RnnState(row, h0, steps) ==
  IF steps = 0 THEN [h0 |-> h0, xs |-> <<>>]
  ELSE GRUCell(row[steps], RnnState(row, h0, steps - 1))

\* lines 220-224, tf.nn.dynamic_rnn: the state of every batch row after the
\* time steps 0..max_len-1, a row's state being copied through from its
\* sequence_length on
dynamic_rnn(link_inputs, initial_state, sequence_length, max_len) ==
  [p \in DOMAIN link_inputs |->
     RnnState(link_inputs[p], initial_state[p], Min(sequence_length[p], max_len))]

\* line 229, tf.reshape(path_state, [num_quests, num_paths])
reshape(states, num_quests, num_paths) ==
  [q \in 1..num_quests |-> [j \in 1..num_paths |-> states[(q - 1) * num_paths + j]]]

\* PathEmbedding._call on the fed values f, lines 207-232
PathEmbeddingCall(f) ==
  LET inputs == l2_normalize(f.inputs)
      h_tild == gather(inputs, f.paths)
      max_len == MaxLenOf(f.seqs)
      N == f.num_quests * f.num_paths
      shape == <<N, max_len, Len(f.inputs[1])>>
      scatter_ok == max_len >= 0
      segment_ok == IsSorted(f.idx)
      lens == IF segment_ok THEN segment_sum_ones(f.idx) ELSE <<>>
      link_inputs == IF scatter_ok THEN scatter_nd(f.idx, f.seqs, h_tild, shape)
                     ELSE <<>>
      status == IF ~scatter_ok THEN "scatter_nd: negative dimension"
                ELSE IF ~segment_ok THEN "segment_sum: segment ids are not increasing"
                ELSE IF Len(lens) # N THEN "dynamic_rnn: shape of sequence_length"
                ELSE "ok"
  IN  [f EXCEPT !.phase = "ran", !.status = status, !.shape = shape,
                !.lens = lens, !.ht = h_tild, !.li = link_inputs,
                !.path_state =
                   IF status = "ok"
                   THEN reshape(dynamic_rnn(link_inputs, f.flow_size, lens, max_len),
                                f.num_quests, f.num_paths)
                   ELSE <<>>]

\* the values fed to the placeholders
Shapes == { <<1, 2>>, <<2, 1>>, <<1, 3>> }
LinkEmbeddings == { << <<1>>, <<2>> >>, << <<0>>, <<3>> >>, << <<1, 2>>, <<2, 0>> >> }
FlowSizes == { <<5, 7, 9>>, <<0, 0, 0>> }
Arrays(n, S) == [1..n -> S]

Feeds ==
  UNION { UNION {
    [phase : {"fed"}, num_quests : {sh[1]}, num_paths : {sh[2]},
     inputs : LinkEmbeddings,
     flow_size : { SubSeq(fs, 1, sh[1] * sh[2]) : fs \in FlowSizes },
     paths : Arrays(n, 0..1),
     idx : Arrays(n, 0..(sh[1] * sh[2] - 1)),
     seqs : Arrays(n, 0..(MaxSteps - 1)),
     status : {""}, shape : {<<>>}, lens : {<<>>}, ht : {<<>>}, li : {<<>>},
     path_state : {<<>>}]
    : n \in 0..MaxSteps } : sh \in Shapes }

InitPE ==
  /\ _LAYER_UIDS = <<>>
  /\ layers = <<>>
  /\ summaries = <<>>
  /\ last = NoLast
  /\ uidCalls = [t \in Tags |-> <<>>]
  /\ threads = NoThreads
  /\ overlap = {}
  /\ gc = NoGC
  /\ pe \in Feeds

\* the forward pass is run (segment_sum by its CPU kernel, which checks that
\* the ids are sorted)
PE_Run ==
  /\ pe.phase = "fed"
  /\ pe' = PathEmbeddingCall(pe)
  /\ UNCHANGED <<_LAYER_UIDS, layers, summaries, last, uidCalls, threads, overlap, gc>>

\* the forward pass is run with segment_sum's GPU kernel on ids that are not
\* sorted: no error is raised and the lengths, hence the states, are
\* unspecified; the padded tensor does not depend on them
PE_RunUnchecked ==
  /\ pe.phase = "fed"
  /\ ~IsSorted(pe.idx)
  /\ pe' = [PathEmbeddingCall(pe) EXCEPT !.status = "unspecified"]
  /\ UNCHANGED <<_LAYER_UIDS, layers, summaries, last, uidCalls, threads, overlap, gc>>

NextPE == PE_Run \/ PE_RunUnchecked

SpecPE == InitPE /\ [][NextPE]_vars

----------------------------------------------------------------------------
(* GraphConvolution._call: SpecGC.                                         *)
(* Matrices are sequences of rows of integers. keep_prob = 1 - dropout is  *)
(* 1/keep_inv, so that the rescaling by 1/keep_prob stays an integer.      *)

\* tf.matmul(x, y)
MatMul(x, y) ==
  [i \in DOMAIN x |-> [j \in DOMAIN y[1] |->
     SumSeq([k \in DOMAIN y |-> x[i][k] * y[k][j]])]]

\* lines 30-36, dot(x, y, sparse): the product, by either kernel
dot(x, y, sparse) == MatMul(x, y)

\* tf.nn.dropout(x, keep_prob) with the mask drawn for this call: x itself
\* when keep_prob is 1, else the kept elements scaled by 1/keep_prob
dropout(x, keep_inv, mask) ==
  IF keep_inv = 1 THEN x
  ELSE [i \in DOMAIN x |-> [j \in DOMAIN x[i] |-> x[i][j] * mask[i][j] * keep_inv]]

\* self.act: tf.nn.relu (the default) or the identity
Act(act, m) ==
  [i \in DOMAIN m |-> [j \in DOMAIN m[i] |->
     IF act = "relu" /\ m[i][j] < 0 THEN 0 ELSE m[i][j]]]

\* lines 175-178 with the test of featureless left out
PreSup_always(layer, x) == dot(x, layer.weights, FALSE)

\* lines 175-178: the features times the weights, or the weights alone
PreSup(layer, x) ==
  IF ~layer.featureless THEN dot(x, layer.weights, FALSE) ELSE layer.weights

\* GraphConvolution._call(inputs), lines 164-187, with the dropout mask drawn
GraphConvolutionCall(layer, inputs, mask) ==
  LET x == dropout(inputs, layer.keep_inv, mask)
      pre_sup == PreSup(layer, x)
      support == dot(layer.support, pre_sup, FALSE)
      output == IF layer.bias
                THEN [i \in DOMAIN support |->
                        [j \in DOMAIN support[i] |-> support[i][j] + layer.b[j]]]
                ELSE support
  IN  Act(layer.act, output)

\* the layers and inputs tried: 2 nodes, input_dim 2, output_dim 1
Supports == { << <<1, 0>>, <<0, 1>> >>, << <<1, 1>>, <<0, 1>> >> }
WeightSets == { << <<1>>, <<-1>> >>, << <<2>>, <<1>> >> }
BiasVectors == { <<0>>, <<-3>> }
FeatureSets == { << <<1, 0>>, <<0, 1>> >>, << <<0, 0>>, <<0, 0>> >>,
                 << <<1, 2>>, <<3, 1>> >> }
Masks == [1..2 -> [1..2 -> {0, 1}]]

GCLayers ==
  { l \in [phase : {"built"}, featureless : BOOLEAN, bias : BOOLEAN,
           act : {"relu", "identity"}, keep_inv : {1, 2},
           support : Supports, weights : WeightSets, b : BiasVectors,
           runs : {<<>>}] :
      ~l.bias => l.b = <<0>> }

InitGC ==
  /\ _LAYER_UIDS = <<>>
  /\ layers = <<>>
  /\ summaries = <<>>
  /\ last = NoLast
  /\ uidCalls = [t \in Tags |-> <<>>]
  /\ threads = NoThreads
  /\ overlap = {}
  /\ pe = NoPE
  /\ gc \in GCLayers

\* the layer is applied to inputs; the application is kept to be compared
\* with the next one
GC_Apply(inputs, mask) ==
  /\ gc.phase = "built"
  /\ Len(gc.runs) < 2
  /\ gc' = [gc EXCEPT !.runs = Append(@,
              [x |-> inputs, out |-> GraphConvolutionCall(gc, inputs, mask)])]
  /\ UNCHANGED <<_LAYER_UIDS, layers, summaries, last, uidCalls, threads, overlap, pe>>

NextGC == \E inputs \in FeatureSets : \E mask \in Masks : GC_Apply(inputs, mask)

SpecGC == InitGC /\ [][NextGC]_vars

----------------------------------------------------------------------------
(* Claims about the naming counter and Layer.                              *)

\* C1: the n-th call of get_layer_uid with a given tag returns n (so each
\* call returns more than every earlier one with that tag), and the count
\* kept for a tag is the number of calls made with that tag: calls with
\* other tags do not change it and it is never reset.
C1_NthCallReturnsN ==
  \A tag \in Tags :
    /\ \A n \in 1..Len(uidCalls[tag]) : uidCalls[tag][n] = n
    /\ Count(_LAYER_UIDS, tag) = Len(uidCalls[tag])

C1_Witness ==
  /\ uidCalls[<<"l","a","y","e","r">>] = <<1, 2, 3>>
  /\ uidCalls[<<"g","r","a","p","h","c","o","n","v","o","l","u","t","i","o","n">>] = <<1>>
  /\ last.op = "uid" /\ last.ret = 3

\* C2: a class whose constructions never overlapped inside get_layer_uid
\* has pairwise distinct default names (overlapping ones can repeat a name:
\* C2_Witness).
C2_SerializedNamesDistinct ==
  \A i, j \in DOMAIN layers :
    (i # j /\ layers[i].cls = layers[j].cls
           /\ StrLower(layers[i].cls) \notin overlap)
      => layers[i].name # layers[j].name

\* two overlapping constructions of Layer got the same name, and two
\* constructions of GraphConvolution that did not overlap got two names
C2_Witness ==
  /\ \E i, j \in DOMAIN layers :
       /\ i # j /\ layers[i].cls = ClsLayer /\ layers[j].cls = ClsLayer
       /\ layers[i].name = layers[j].name
  /\ <<"g","r","a","p","h","c","o","n","v","o","l","u","t","i","o","n">> \notin overlap
  /\ \E i, j \in DOMAIN layers :
       /\ layers[i].cls = ClsGraphConvolution /\ layers[j].cls = ClsGraphConvolution
       /\ layers[i].name = <<"g","r","a","p","h","c","o","n","v","o","l","u","t","i","o","n","_","1">>
       /\ layers[j].name = <<"g","r","a","p","h","c","o","n","v","o","l","u","t","i","o","n","_","2">>

\* C3: a constructor call with a key other than name and logging raises at
\* once an error whose message names such a key of the call, and produces
\* no layer: the layers, the counters and the summaries are as before.
C3_UnknownKeyRejected ==
  [][last'.op = "construct" =>
     \A cls \in Classes : \A kw \in RejectedKwargs :
       (ConstructFails(cls, kw) \/ \E args \in CtorArgs(cls) : ConstructOk(cls, args, kw))
       => /\ \E i \in DOMAIN kw.keys :
               /\ kw.keys[i] \notin {KwName, KwLogging}
               /\ last'.err = InvalidKeywordArgument \o kw.keys[i]
          /\ layers' = layers
          /\ _LAYER_UIDS' = _LAYER_UIDS
          /\ summaries' = summaries]_vars

\* GraphConvolution(..., dim=..) fails with 'Invalid keyword argument: dim'
\* after a layer was made, and there is still that one layer
C3_Witness ==
  /\ last.op = "construct"
  /\ last.err = <<"I","n","v","a","l","i","d"," ","k","e","y","w","o","r","d"," ",
                  "a","r","g","u","m","e","n","t",":"," ","d","i","m">>
  /\ Len(layers) = 1

\* C4 as stated: a construction given the key name takes that string as the
\* layer's name and leaves the counters alone; one without it advances only
\* the counter of the lowercased class name and is named <tag>_<n>.
C4_AsStated ==
  [][Len(layers') > Len(layers) =>
     \A cls \in Classes : \A kw \in AcceptedKwargs : \A args \in CtorArgs(cls) :
       ConstructOk(cls, args, kw) =>
         LET self == layers'[Len(layers')]
             tag == StrLower(cls)
         IN  IF InKeys(kw, KwName)
             THEN self.name = kw.name /\ _LAYER_UIDS' = _LAYER_UIDS
             ELSE /\ last'.ret = Count(_LAYER_UIDS, tag) + 1
                  /\ _LAYER_UIDS' = DictSet(_LAYER_UIDS, tag, last'.ret)
                  /\ self.name = tag \o <<"_">> \o Str(last'.ret)]_vars

\* C4, amended: a construction given a non-empty name takes that string as
\* the layer's name and leaves every counter unchanged; one given no name,
\* or the empty string, advances only the counter of the lowercased class
\* name and is named <tag>_<n>, n being the value just returned.
C4_NameOrCounter ==
  [][Len(layers') > Len(layers) =>
     \A cls \in Classes : \A kw \in AcceptedKwargs : \A args \in CtorArgs(cls) :
       ConstructOk(cls, args, kw) =>
         LET self == layers'[Len(layers')]
             tag == StrLower(cls)
         IN  IF InKeys(kw, KwName) /\ kw.name # <<>>
             THEN self.name = kw.name /\ _LAYER_UIDS' = _LAYER_UIDS
             ELSE /\ last'.ret = Count(_LAYER_UIDS, tag) + 1
                  /\ _LAYER_UIDS' = DictSet(_LAYER_UIDS, tag, last'.ret)
                  /\ self.name = tag \o <<"_">> \o Str(last'.ret)]_vars

\* after two calls get_layer_uid('layer') a GraphConvolution was constructed
\* without a name: it is graphconvolution_1 and the count of layer is still 2
C4_Witness ==
  /\ Len(layers) = 1
  /\ layers[1].name =
       <<"g","r","a","p","h","c","o","n","v","o","l","u","t","i","o","n","_","1">>
  /\ DOMAIN _LAYER_UIDS = { <<"l","a","y","e","r">>,
                            <<"g","r","a","p","h","c","o","n","v","o","l","u","t","i","o","n">> }
  /\ _LAYER_UIDS[<<"l","a","y","e","r">>] = 2
  /\ last.op = "construct" /\ last.ret = 1

Has(seq, x) == \E i \in DOMAIN seq : seq[i] = x

\* C9 as stated: with logging on, every __call__ emits the inputs, the
\* outputs and every entry of self.vars under the layer's name; with
\* logging off it emits nothing; either way it returns _call(inputs).
C9_AsStated ==
  [][last'.op = "apply" =>
     \A i \in DOMAIN layers : \A inputs \in Inputs :
       Apply(i, inputs) =>
         LET self == layers[i]
         IN  /\ last'.outputs = CallOf(self, inputs)
             /\ summaries' = summaries \o last'.emit
             /\ self.logging =>
                  /\ Has(last'.emit, self.name \o SfxInputs)
                  /\ Has(last'.emit, self.name \o SfxOutputs)
                  /\ \A v \in DOMAIN self.vars :
                       Has(last'.emit, self.name \o SfxVars \o self.vars[v])
             /\ ~self.logging => last'.emit = <<>>]_vars

\* C9, amended: with logging on, every __call__ emits the outputs, and the
\* inputs unless the layer takes sparse inputs, under the layer's name, and
\* nothing else; the parameters are emitted once, by the constructor of a
\* layer that has parameters, and never by __call__; with logging off
\* neither emits anything; __call__ returns _call(inputs) either way.
C9_CallEmitsInputsOutputs ==
  [][/\ last'.op = "apply" =>
        \A i \in DOMAIN layers : \A inputs \in Inputs :
          Apply(i, inputs) =>
            LET self == layers[i]
            IN  /\ last'.outputs = CallOf(self, inputs)
                /\ summaries' = summaries \o last'.emit
                /\ last'.emit =
                     (IF self.logging /\ ~self.sparse_inputs
                      THEN <<self.name \o SfxInputs>> ELSE <<>>)
                     \o (IF self.logging THEN <<self.name \o SfxOutputs>> ELSE <<>>)
     /\ Len(layers') > Len(layers) =>
        \A cls \in Classes : \A kw \in AcceptedKwargs : \A args \in CtorArgs(cls) :
          ConstructOk(cls, args, kw) =>
            LET self == layers'[Len(layers')]
            IN  /\ summaries' = summaries \o last'.emit
                /\ last'.emit =
                     IF self.logging
                     THEN [v \in DOMAIN self.vars |-> self.name \o SfxVars \o self.vars[v]]
                     ELSE <<>>]_vars

\* a logging GraphConvolution named fc with sparse inputs and no bias was
\* constructed (one parameter histogram) and then applied (one more)
C9_Witness ==
  /\ Len(layers) = 1 /\ layers[1].logging /\ layers[1].sparse_inputs
  /\ last.op = "apply"
  /\ summaries = << <<"f","c","/","v","a","r","s","/","w","e","i","g","h","t","s">>,
                    <<"f","c","/","o","u","t","p","u","t","s">> >>

----------------------------------------------------------------------------
(* Claims about PathEmbedding._call.                                       *)

NumPathIds(f) == f.num_quests * f.num_paths
StepsOf(f, p) == { i \in DOMAIN f.idx : f.idx[i] = p }

\* the invariants the index arrays are said to satisfy: equal lengths, every
\* idx[i] a path id, and the seqs of a path's steps are 0, 1, ... without
\* gap or duplicate
IndexInvariants(f) ==
  /\ Len(f.paths) = Len(f.idx)
  /\ Len(f.seqs) = Len(f.idx)
  /\ \A i \in DOMAIN f.idx : f.idx[i] \in 0..(NumPathIds(f) - 1)
  /\ \A p \in 0..(NumPathIds(f) - 1) :
       /\ { f.seqs[i] : i \in StepsOf(f, p) } = 0..(Cardinality(StepsOf(f, p)) - 1)
       /\ \A i, j \in StepsOf(f, p) : f.seqs[i] = f.seqs[j] => i = j

\* the final state _call returned for path id p
FinalState(f, p) == f.path_state[(p \div f.num_paths) + 1][(p % f.num_paths) + 1]

\* the cell folded from flow_size[p] over the normalized embeddings of the
\* links of p's steps, in increasing seqs order
FoldOverPath(f, p) ==
  [h0 |-> f.flow_size[p + 1],
   xs |-> [t \in 1..Cardinality(StepsOf(f, p)) |->
             l2_normalize(f.inputs)[
               f.paths[CHOOSE i \in StepsOf(f, p) : f.seqs[i] = t - 1] + 1]]]

\* the cases the properties below are stated for: the forward pass was run on
\* non-empty index arrays that satisfy the invariants, idx being sorted
RanOnSortedArrays ==
  /\ pe.phase = "ran"
  /\ pe.idx # <<>>
  /\ IndexInvariants(pe)
  /\ IsSorted(pe.idx)

\* C5 as stated, on sorted non-empty arrays: lens has an entry for every
\* path id p in [0, num_quests*num_paths), lens[p] is the number of steps
\* with idx[i] = p, and the entries sum to len(idx).
C5_AsStated ==
  RanOnSortedArrays =>
    /\ Len(pe.lens) = NumPathIds(pe)
    /\ \A p \in 0..(NumPathIds(pe) - 1) :
         pe.lens[p + 1] = Cardinality(StepsOf(pe, p))
    /\ SumSeq(pe.lens) = Len(pe.idx)

\* C6 as stated, on sorted non-empty arrays: the forward pass does not fail
\* and a path without step, also one after the last id present in idx, has
\* its flow_size as final state, the cell having made no step.
C6_AsStated ==
  RanOnSortedArrays =>
    \A p \in 0..(NumPathIds(pe) - 1) :
      StepsOf(pe, p) = {} =>
        /\ pe.status = "ok"
        /\ FinalState(pe, p) = [h0 |-> pe.flow_size[p + 1], xs |-> <<>>]

\* C7 as stated, on sorted non-empty arrays: the final state of every path
\* is the cell folded from flow_size[p] over the embeddings of the path's
\* steps in increasing seqs order, and over nothing else.
C7_AsStated ==
  RanOnSortedArrays =>
    /\ pe.status = "ok"
    /\ \A p \in 0..(NumPathIds(pe) - 1) : FinalState(pe, p) = FoldOverPath(pe, p)

\* What the code does for C5, C6 and C7: all three hold when, besides, the
\* last path id has a step (then segment_sum yields one length per path).
PE_HoldsWhenLastPathHasSteps ==
  (RanOnSortedArrays /\ pe.idx[Len(pe.idx)] = NumPathIds(pe) - 1) =>
    /\ pe.status = "ok"
    /\ Len(pe.lens) = NumPathIds(pe)
    /\ SumSeq(pe.lens) = Len(pe.idx)
    /\ \A p \in 0..(NumPathIds(pe) - 1) :
         /\ pe.lens[p + 1] = Cardinality(StepsOf(pe, p))
         /\ FinalState(pe, p) = FoldOverPath(pe, p)

\* C10: for non-empty index arrays whose (idx[i], seqs[i]) pairs are
\* pairwise distinct, the padded tensor has the shape
\* [num_quests*num_paths, max(seqs)+1, link_state_dim], its slot
\* (idx[i], seqs[i]) holds the normalized embedding of link paths[i], and
\* every slot no step addresses is zero.
C10_PaddedTensor ==
  ( /\ pe.phase = "ran"
    /\ pe.idx # <<>>
    /\ \A i, j \in DOMAIN pe.idx :
         (pe.idx[i] = pe.idx[j] /\ pe.seqs[i] = pe.seqs[j]) => i = j )
  => LET N == pe.num_quests * pe.num_paths
         W == 1 + CHOOSE m \in 0..(MaxSteps + 1) :
                    /\ \E i \in DOMAIN pe.seqs : pe.seqs[i] = m
                    /\ \A i \in DOMAIN pe.seqs : pe.seqs[i] <= m
         D == Len(pe.inputs[1])
     IN  /\ pe.shape = <<N, W, D>>
         /\ Len(pe.li) = N
         /\ \A p \in 1..N : Len(pe.li[p]) = W
         /\ \A p \in 1..N : \A t \in 1..W : Len(pe.li[p][t]) = D
         /\ \A i \in DOMAIN pe.idx :
              pe.li[pe.idx[i] + 1][pe.seqs[i] + 1]
                = l2_normalize(pe.inputs)[pe.paths[i] + 1]
         /\ \A p \in 1..N : \A t \in 1..W :
              (~\E i \in DOMAIN pe.idx : pe.idx[i] = p - 1 /\ pe.seqs[i] = t - 1)
                => \A c \in 1..D : pe.li[p][t][c] = [n |-> 0, d |-> 1]

\* links (1), (2) normalize to 1/sqrt(5), 2/sqrt(5); step 0 (link 1) goes to
\* slot (0, 0), step 1 (link 0) to slot (1, 1), the other two slots are zero
C10_Witness ==
  /\ pe.phase = "ran"
  /\ pe.num_quests = 1 /\ pe.num_paths = 2
  /\ pe.inputs = << <<1>>, <<2>> >>
  /\ pe.paths = <<1, 0>> /\ pe.idx = <<0, 1>> /\ pe.seqs = <<0, 1>>
  /\ pe.shape = <<2, 2, 1>>
  /\ pe.li = << << <<[n |-> 2, d |-> 5]>>, <<[n |-> 0, d |-> 1]>> >>,
                << <<[n |-> 0, d |-> 1]>>, <<[n |-> 1, d |-> 5]>> >> >>

----------------------------------------------------------------------------
(* Claims about GraphConvolution._call.                                    *)

\* C8: a featureless layer yields activation(S.W [+ bias]) whatever it is
\* applied to: two applications of it, to different inputs, yield the same
\* output.
C8_FeaturelessIgnoresInputs ==
  (gc.phase = "built" /\ gc.featureless) =>
    LET SW == [i \in 1..2 |-> [j \in 1..1 |->
                 gc.support[i][1] * gc.weights[1][j]
                 + gc.support[i][2] * gc.weights[2][j]
                 + (IF gc.bias THEN gc.b[j] ELSE 0)]]
        expected == [i \in 1..2 |-> [j \in 1..1 |->
                      IF gc.act = "relu" /\ SW[i][j] < 0 THEN 0 ELSE SW[i][j]]]
    IN  /\ \A r \in DOMAIN gc.runs : gc.runs[r].out = expected
        /\ \A r, q \in DOMAIN gc.runs : gc.runs[r].out = gc.runs[q].out

\* S = [[1,1],[0,1]], W = [[2],[1]], bias -3, relu, keep_prob 1/2: applied to
\* the identity and to [[1,2],[3,1]] the layer yields relu([[0],[-2]]) twice
C8_Witness ==
  /\ gc.phase = "built" /\ gc.featureless /\ gc.bias /\ gc.act = "relu"
  /\ gc.keep_inv = 2
  /\ gc.support = << <<1, 1>>, <<0, 1>> >>
  /\ gc.weights = << <<2>>, <<1>> >>
  /\ gc.b = <<-3>>
  /\ gc.runs = << [x |-> << <<1, 0>>, <<0, 1>> >>, out |-> << <<0>>, <<0>> >>],
                  [x |-> << <<1, 2>>, <<3, 1>> >>, out |-> << <<0>>, <<0>> >>] >>

====
